---- MODULE Spec2Model ----
(***************************************************************************)
(* The ESP8266+MEGA sketch of the repository (src/unnamed/part_000): an    *)
(* Arduino Mega drives an ESP8266 over Serial1 with AT commands, waits for *)
(* a client and broadcasts NBP packets.                                    *)
(*                                                                         *)
(* The sketch is one thread of control.  Every place where it polls the    *)
(* serial link is a control location (pc); the code between two such       *)
(* places is one action.  The ESP8266 and the millisecond clock are the    *)
(* environment: ModuleSend puts bytes in the receive buffer, Tick advances *)
(* millis().                                                               *)
(*                                                                         *)
(* Strings that are only written are TLA+ strings; the bytes that are read *)
(* and matched by suffix are sequences of one-character strings.  A float  *)
(* is modelled in fixed point, in thousandths, with the IEEE special       *)
(* values kept apart: <<"num", m>>, <<"inf", s>>, <<"nan", 0>>.            *)
(***************************************************************************)
EXTENDS Integers, Sequences, FiniteSets, TLC

(***************************************************************************)
(* Program constants.                                                      *)
(***************************************************************************)
DEVICE_NAME == "My NBP Device"
KEEPALIVE_OFF == TRUE
blinkFrequency == 25
updateAllFrequency == 4999
consecutiveErrorCountLimit == 25
FrequencyWindowSize == 50
atTimeout == 200
setupTimeout == 1250
waitDelay == 50
\* int is 16 bits wide and byte 8 bits on the Mega.  unsigned long is 32 bits
\* wide there; TLC's integers end at 2^31 - 1, so the model keeps 30 bits of
\* it: the arithmetic wraps in the same way, at 2^30 instead of 2^32.
ULongMod == 1073741824
IntMod == 65536
ByteMod == 256
\* the level of a pin after digitalWrite(pin, HIGH), in the units of analogWrite
PinHigh == 255
LOW == 0

(***************************************************************************)
(* Bounds of the model.                                                    *)
(***************************************************************************)
\* loop() runs at most MaxLoops times in Spec
MaxLoops == 1
\* loop() runs at most MaxLoopsDeep times in SpecDeep
MaxLoopsDeep == 27
\* millis() is advanced by the environment only while it is below MaxClock
MaxClock == 400
\* bytes the module may have delivered to one polling loop (read or pending)
MaxRespLen == 8
\* passes of waitForConnection's outer loop without a marker, per call
MaxWaitPasses == 1
\* loop() runs at most MaxLoopsRun times in SpecRun
MaxLoopsRun == 6
\* loop() runs at most MaxLoopsWindow times in SpecWindow
MaxLoopsWindow == 55
\* the runs of loop() after which the module's delay varies in SpecWindow
VariedLoops == 3
\* loop() runs at most MaxLoopsLate times from where SpecLate begins
MaxLoopsLate == 3

(***************************************************************************)
(* Tokens matched by suffix, as sequences of characters.                   *)
(***************************************************************************)
TokPrompt == <<">">>
TokError == <<"E", "R", "R", "O", "R">>
TokSendOk == <<"S", "E", "N", "D", " ", "O", "K">>
TokReady == <<"r", "e", "a", "d", "y">>
TokOk == <<"O", "K">>
TokConnect == <<",", "C", "O", "N", "N", "E", "C", "T">>
TokIpd == <<"+", "I", "P", "D">>

\* String::endsWith
EndsWith(s, t) ==
    /\ Len(s) >= Len(t)
    /\ SubSeq(s, Len(s) - Len(t) + 1, Len(s)) = t

(***************************************************************************)
(* Number formatting.                                                      *)
(***************************************************************************)
Digits == <<"0", "1", "2", "3", "4", "5", "6", "7", "8", "9">>

RECURSIVE NatStr(_)
\* String(n) of a non-negative integer
NatStr(n) == IF n < 10 THEN Digits[n + 1] ELSE NatStr(n \div 10) \o Digits[(n % 10) + 1]

\* String(n) of an integer
IntStr(n) == IF n < 0 THEN "-" \o NatStr(0 - n) ELSE NatStr(n)

\* conversion of an unsigned long to the 16 bit int of the Mega
ToInt(n) == ((n + 32768) % IntMod) - 32768

\* String(now / 1000.0, 3): seconds with three decimals
SecondsStr(ms) ==
    NatStr(ms \div 1000) \o "." \o Digits[((ms \div 100) % 10) + 1]
        \o Digits[((ms \div 10) % 10) + 1] \o Digits[(ms % 10) + 1]

\* String(tenths / 10.0, 1)
TenthsStr(t) == NatStr(t \div 10) \o "." \o Digits[(t % 10) + 1]

(***************************************************************************)
(* Floats, in thousandths.                                                 *)
(***************************************************************************)
FNum(m) == <<"num", m>>
FInf(s) == <<"inf", s>>
FNaN == <<"nan", 0>>
FZero == FNum(0)

FNeg(a) == IF a[1] = "nan" THEN a ELSE <<a[1], 0 - a[2]>>

FAdd(a, b) ==
    IF a[1] = "nan" \/ b[1] = "nan" THEN FNaN
    ELSE IF a[1] = "inf" /\ b[1] = "inf" THEN (IF a[2] = b[2] THEN a ELSE FNaN)
    ELSE IF a[1] = "inf" THEN a
    ELSE IF b[1] = "inf" THEN b
    ELSE FNum(a[2] + b[2])

FSub(a, b) == FAdd(a, FNeg(b))

\* a / n for an integer n > 0
FDivInt(a, n) ==
    IF a[1] = "num"
    THEN (IF a[2] >= 0 THEN FNum(a[2] \div n) ELSE FNum(0 - ((0 - a[2]) \div n)))
    ELSE a

\* 1000.0 / d for an unsigned long d
FRate(d) == IF d = 0 THEN FInf(1) ELSE FNum(1000000 \div d)

\* a != b on floats: a NaN differs from everything
FNe(a, b) == a[1] = "nan" \/ b[1] = "nan" \/ a # b

\* String(a, 1): one decimal, rounded
FloatStr1(a) ==
    IF a[1] = "nan" THEN "NAN"
    ELSE IF a[1] = "inf" THEN (IF a[2] > 0 THEN "INF" ELSE "-INF")
    ELSE IF a[2] >= 0 THEN TenthsStr((a[2] + 50) \div 100)
    ELSE "-" \o TenthsStr(((0 - a[2]) + 50) \div 100)

VARIABLES
    pc,                      \* control location of the sketch
    ret,                     \* return locations of the calls in progress
    clock,                   \* millis()
    rx,                      \* Serial1's receive buffer
    wire,                    \* what this run of setup() or loop() wrote to Serial1
    red, green,              \* levels of the two LED pins
    setupStep,               \* next AT command of setup()
    now, lastNow, lastUpdateAllMillis,
    consecutiveErrorCount, loopCount,
    FrequencyIndex, FrequencySum, Frequencies, CurrentAverageFrequency,
    lastBroadcastFrequency, lastRandomFloat, lastRandomInt,
    updateAll,               \* loop(): the branch of line 169 taken
    nbpPackage,              \* sendNbpPackage's parameter
    expected, timeout,       \* sendDataUntil's parameters
    response, time, keepTrying, foundExpected, foundError,
    inInner,                 \* the polling loop is in its inner while
    foundConnect, foundIpd, ledBrightness,
    currentBroadcastFrequency, currentRandomFloat, currentRandomInt,
                             \* GetUpdateNbpPackage's locals, as its last call left them
    countValue,              \* buildNbpContentLine's int value, as its last call got it
    failRun,                 \* history: broadcast attempts of loop() that failed in a row
    lastFullSent,            \* history: millis() when the last UPDATEALL was handed over
    stale                    \* history: unread bytes of rx that were there when the
                             \* polling loop began

hw == <<clock, rx>>
leds == <<red, green>>
globals == <<now, lastNow, lastUpdateAllMillis, consecutiveErrorCount, loopCount>>
freq == <<FrequencyIndex, FrequencySum, Frequencies, CurrentAverageFrequency>>
lasts == <<lastBroadcastFrequency, lastRandomFloat, lastRandomInt>>
built == <<currentBroadcastFrequency, currentRandomFloat, currentRandomInt, countValue,
           lastFullSent>>
poll == <<response, time, keepTrying, foundExpected, foundError, inInner, stale>>
wfcLocals == <<foundConnect, foundIpd, ledBrightness>>
sduParams == <<expected, timeout>>
vars == <<pc, ret, hw, wire, leds, setupStep, globals, freq, lasts, built,
          updateAll, nbpPackage, sduParams, poll, wfcLocals, failRun>>

(***************************************************************************)
(* The environment: the ESP8266 and the millisecond clock.                 *)
(***************************************************************************)
\* what the module sends in one piece
Chunks == {TokPrompt, <<">", " ">>, TokError, TokSendOk, TokReady, TokOk,
           TokConnect, TokIpd}

\* how far millis() moves in one step of the environment
TickSet == {atTimeout, setupTimeout}

\* the places where the sketch polls Serial1
Polling == {"sdu", "nbp1", "nbp2", "wfc"}

\* the module delivers a chunk while the sketch polls and has read all that
\* came before; what a polling loop leaves unread stays in rx for the next
ModuleSend ==
    /\ pc \in Polling
    /\ rx = <<>>
    /\ \E ch \in Chunks :
          /\ Len(response) + Len(ch) <= MaxRespLen
          /\ rx' = ch
    /\ UNCHANGED <<pc, ret, clock, wire, leds, setupStep, globals, freq, lasts, built,
                   updateAll, nbpPackage, sduParams, poll, wfcLocals, failRun>>

\* time passes while a timed exchange is unresolved
Tick ==
    /\ pc \in {"sdu", "nbp1", "nbp2"}
    /\ keepTrying
    /\ clock < MaxClock
    /\ \E d \in TickSet : clock' = (clock + d) % ULongMod
    /\ UNCHANGED <<pc, ret, rx, wire, leds, setupStep, globals, freq, lasts, built,
                   updateAll, nbpPackage, sduParams, poll, wfcLocals, failRun>>

(***************************************************************************)
(* The polling loop shared by sendDataUntil and the two phases of          *)
(* sendNbpPackage:                                                         *)
(*   while (keepTrying && (time + timeout) > millis())                     *)
(*     while (keepTrying && Serial1.available()) { read, match }           *)
(***************************************************************************)
\* the locals at the start of a polling loop
PollStart ==
    /\ response' = <<>>
    /\ time' = clock
    /\ keepTrying' = TRUE
    /\ foundExpected' = FALSE
    /\ foundError' = FALSE
    /\ inInner' = FALSE
    /\ stale' = Len(rx)

\* the locals once the function has returned
PollDone ==
    /\ response' = <<>>
    /\ time' = 0
    /\ keepTrying' = FALSE
    /\ foundExpected' = FALSE
    /\ foundError' = FALSE
    /\ inInner' = FALSE
    /\ stale' = 0

\* (time + timeout) > millis(), in unsigned long arithmetic
BeforeDeadline(t, to) == ((t + to) % ULongMod) > clock

\* the inner loop may read a byte: it is running, or the outer test lets it start
CanRead(to) ==
    /\ keepTrying
    /\ rx # <<>>
    /\ (inInner \/ BeforeDeadline(time, to))

\* both loops have ended
LoopEnded(to) ==
    \/ ~keepTrying
    \/ (~BeforeDeadline(time, to) /\ (~inInner \/ rx = <<>>))

\* ReadByte with the response compared as a whole instead of by its suffix
ReadByteWhole(tok) ==
    LET r == Append(response, Head(rx))
        fe == (r = tok)
        ferr == (r = TokError)
    IN  /\ rx' = Tail(rx)
        /\ response' = r
        /\ foundExpected' = fe
        /\ foundError' = ferr
        /\ keepTrying' = (~fe /\ ~ferr)
        /\ inInner' = TRUE
        /\ stale' = (IF stale > 0 THEN stale - 1 ELSE 0)
        /\ UNCHANGED time

\* response += c: the String grows by the byte, and is left as it is once
\* MaxRespLen bytes are in it and no memory is left for more
Concat(r, c) == IF Len(r) < MaxRespLen THEN Append(r, c) ELSE r

\* one pass of the inner loop: read a byte and match the two suffixes
ReadByte(tok) ==
    LET r == Concat(response, Head(rx))
        fe == EndsWith(r, tok)
        ferr == EndsWith(r, TokError)
    IN  /\ rx' = Tail(rx)
        /\ response' = r
        /\ foundExpected' = fe
        /\ foundError' = ferr
        /\ keepTrying' = (~fe /\ ~ferr)
        /\ inInner' = TRUE
        /\ stale' = (IF stale > 0 THEN stale - 1 ELSE 0)
        /\ UNCHANGED time

\* the outcome of a polling loop that has ended
Outcome ==
    IF foundError THEN "ProtocolError"
    ELSE IF foundExpected THEN "Success"
    ELSE "Timeout"

(***************************************************************************)
(* setup() and sendDataUntil().                                            *)
(***************************************************************************)
\* SetupCommand with the server started before multiplexing is set
SetupCommandSwapped(k) ==
    CASE k = 1 -> [text |-> "AT+RST\r\n", expected |-> TokReady]
      [] k = 2 -> [text |-> "AT+CIPSERVER=1,80\r\n", expected |-> TokOk]
      [] k = 3 -> [text |-> "AT+CIPMUX=1\r\n", expected |-> TokOk]

SetupCommand(k) ==
    CASE k = 1 -> [text |-> "AT+RST\r\n", expected |-> TokReady]
      [] k = 2 -> [text |-> "AT+CIPMUX=1\r\n", expected |-> TokOk]
      [] k = 3 -> [text |-> "AT+CIPSERVER=1,80\r\n", expected |-> TokOk]

\* Serial1.print of an AT command
AtWrite(w, text) == Append(w, [kind |-> "at", text |-> text])

\* Serial1.print of a package
DataWrite(w, text) == Append(w, [kind |-> "data", text |-> text])

\* setup() up to its next call of sendDataUntil, and the call's first lines
SetupCall ==
    /\ pc = "setup"
    /\ setupStep \in 1..3
    /\ wire' = AtWrite(wire, SetupCommand(setupStep).text)
    /\ expected' = SetupCommand(setupStep).expected
    /\ timeout' = setupTimeout
    /\ PollStart
    /\ IF setupStep = 1 THEN red' = 100 /\ green' = 100 ELSE UNCHANGED leds
    /\ pc' = "sdu"
    /\ UNCHANGED <<ret, hw, setupStep, globals, freq, lasts, built, updateAll,
                   nbpPackage, wfcLocals, failRun>>

sendDataUntilRead ==
    /\ pc = "sdu"
    /\ CanRead(timeout)
    /\ ReadByte(expected)
    /\ UNCHANGED <<pc, ret, clock, wire, leds, setupStep, globals, freq, lasts, built,
                   updateAll, nbpPackage, sduParams, wfcLocals, failRun>>

sendDataUntilReturn ==
    /\ pc = "sdu"
    /\ LoopEnded(timeout)
    /\ IF foundError THEN red' = 200 /\ UNCHANGED green ELSE UNCHANGED leds
    /\ PollDone
    /\ expected' = <<>>
    /\ timeout' = 0
    /\ setupStep' = setupStep + 1
    /\ pc' = "setup"
    /\ UNCHANGED <<ret, hw, wire, globals, freq, lasts, built, updateAll, nbpPackage,
                   wfcLocals, failRun>>

(***************************************************************************)
(* waitForConnection().                                                    *)
(***************************************************************************)
\* the locals at the start of waitForConnection
WfcStart ==
    /\ response' = <<>>
    /\ keepTrying' = TRUE
    /\ foundConnect' = FALSE
    /\ foundIpd' = FALSE
    /\ ledBrightness' = 0
    /\ time' = 0
    /\ foundExpected' = FALSE
    /\ foundError' = FALSE
    /\ inInner' = FALSE
    /\ stale' = 0

\* the end of setup(): the lights go off and waitForConnection is called
SetupFinish ==
    /\ pc = "setup"
    /\ setupStep = 4
    /\ red' = LOW
    /\ green' = LOW
    /\ WfcStart
    /\ ret' = <<"setupEnd">> \o ret
    /\ pc' = "wfc"
    /\ UNCHANGED <<hw, wire, setupStep, globals, freq, lasts, built, updateAll,
                   nbpPackage, sduParams, failRun>>

\* one pass of the inner loop of waitForConnection
waitForConnectionRead ==
    /\ pc = "wfc"
    /\ keepTrying
    /\ rx # <<>>
    /\ LET r == Append(response, Head(rx))
           fc == EndsWith(r, TokConnect)
           fi == EndsWith(r, TokIpd)
       IN  /\ rx' = Tail(rx)
           /\ response' = r
           /\ foundConnect' = fc
           /\ foundIpd' = fi
           /\ keepTrying' = (~fc /\ ~fi)
    /\ UNCHANGED <<pc, ret, clock, wire, leds, setupStep, globals, freq, lasts, built,
                   updateAll, nbpPackage, sduParams, time, foundExpected,
                   foundError, inInner, stale, ledBrightness, failRun>>

\* waitForConnectionPass giving up after one pass without a marker
waitForConnectionPassOnce ==
    /\ pc = "wfc"
    /\ (~keepTrying \/ rx = <<>>)
    /\ red' = ledBrightness \div 4
    /\ ledBrightness' = (ledBrightness + 8) % ByteMod
    /\ clock' = (clock + waitDelay) % ULongMod
    /\ pc' = "wfcSend"
    /\ UNCHANGED <<ret, rx, wire, green, setupStep, globals, freq, lasts, built,
                   updateAll, nbpPackage, sduParams, poll, foundConnect,
                   foundIpd, failRun>>

\* the rest of a pass of the outer loop: the red light ramps, delay(50)
waitForConnectionPass ==
    /\ pc = "wfc"
    /\ (~keepTrying \/ rx = <<>>)
    /\ keepTrying => (ledBrightness \div 8) < MaxWaitPasses
    /\ red' = ledBrightness \div 4
    /\ ledBrightness' = (ledBrightness + 8) % ByteMod
    /\ clock' = (clock + waitDelay) % ULongMod
    /\ pc' = IF keepTrying THEN "wfc" ELSE "wfcSend"
    /\ UNCHANGED <<ret, rx, wire, green, setupStep, globals, freq, lasts, built,
                   updateAll, nbpPackage, sduParams, poll, foundConnect,
                   foundIpd, failRun>>

(***************************************************************************)
(* sendNbpPackage().                                                       *)
(***************************************************************************)
\* CipSendCommand with the length of the command's line end counted in
CipSendCommandLong(pkg) == "AT+CIPSEND=0," \o NatStr(Len(pkg) + 2) \o "\r\n"

\* "AT+CIPSEND=0," + String(nbpPackage.length()) + "\r\n"
CipSendCommand(pkg) == "AT+CIPSEND=0," \o NatStr(Len(pkg)) \o "\r\n"

\* ControlPackage without its keepalive line
ControlPackageNameOnly == "@NAME:" \o DEVICE_NAME \o "\n"

\* the package sent when a connection is established
ControlPackage == "@NAME:" \o DEVICE_NAME \o "\n@KEEPALIVE:OFF\n"

\* the first lines of sendNbpPackage: the length is announced
NbpStart(w, pkg) ==
    /\ nbpPackage' = pkg
    /\ wire' = AtWrite(w, CipSendCommand(pkg))
    /\ PollStart

\* the lines of waitForConnection after its loop, up to the call of sendNbpPackage
waitForConnectionSend ==
    /\ pc = "wfcSend"
    /\ IF KEEPALIVE_OFF
       THEN /\ NbpStart(wire, ControlPackage)
            /\ ret' = <<"wfcTail">> \o ret
            /\ pc' = "nbp1"
       ELSE /\ pc' = "wfcTail"
            /\ UNCHANGED <<ret, wire, nbpPackage, poll>>
    /\ UNCHANGED <<hw, leds, setupStep, globals, freq, lasts, built, updateAll,
                   sduParams, wfcLocals, failRun>>

\* the last line of waitForConnection, and the return to setup() or loop()
waitForConnectionReturn ==
    /\ pc = "wfcTail"
    /\ red' = LOW
    /\ pc' = IF Head(ret) = "setupEnd" THEN "loop" ELSE Head(ret)
    /\ ret' = Tail(ret)
    /\ foundConnect' = FALSE
    /\ foundIpd' = FALSE
    /\ ledBrightness' = 0
    /\ UNCHANGED <<hw, wire, green, setupStep, globals, freq, lasts, built, updateAll,
                   nbpPackage, sduParams, poll, failRun>>

\* the history of loop()'s broadcast attempts, kept when sendNbpPackage returns
FailRunAfter(ok) ==
    IF Head(ret) # "loopTail" THEN failRun
    ELSE IF ok THEN 0
    ELSE IF failRun < consecutiveErrorCountLimit THEN failRun + 1
    ELSE failRun

\* sendNbpPackage returns to its caller
NbpReturn(ok) ==
    /\ pc' = Head(ret)
    /\ ret' = Tail(ret)
    /\ nbpPackage' = ""
    /\ PollDone
    /\ failRun' = FailRunAfter(ok)

sendNbpPackageRead1 ==
    /\ pc = "nbp1"
    /\ CanRead(atTimeout)
    /\ ReadByte(TokPrompt)
    /\ UNCHANGED <<pc, ret, clock, wire, leds, setupStep, globals, freq, lasts, built,
                   updateAll, nbpPackage, sduParams, wfcLocals, failRun>>

\* line 270: ERROR answered the length
sendNbpPackageError1 ==
    /\ pc = "nbp1"
    /\ LoopEnded(atTimeout)
    /\ foundError
    /\ red' = PinHigh
    /\ consecutiveErrorCount' = consecutiveErrorCount + 1
    /\ NbpReturn(FALSE)
    /\ UNCHANGED <<hw, wire, green, setupStep, now, lastNow, lastUpdateAllMillis,
                   loopCount, freq, lasts, built, updateAll, sduParams, wfcLocals>>

\* line 280: ">" answered the length: the package is written
sendNbpPackagePayload ==
    /\ pc = "nbp1"
    /\ LoopEnded(atTimeout)
    /\ ~foundError
    /\ foundExpected
    /\ wire' = DataWrite(wire, nbpPackage)
    /\ consecutiveErrorCount' = 0
    /\ PollStart
    /\ pc' = "nbp2"
    /\ UNCHANGED <<ret, hw, leds, setupStep, now, lastNow, lastUpdateAllMillis,
                   loopCount, freq, lasts, built, updateAll, nbpPackage, sduParams,
                   wfcLocals, failRun>>

\* neither branch of line 270: the first loop ran out of time
sendNbpPackageTimeout1 ==
    /\ pc = "nbp1"
    /\ LoopEnded(atTimeout)
    /\ ~foundError
    /\ ~foundExpected
    /\ NbpReturn(FALSE)
    /\ UNCHANGED <<hw, wire, leds, setupStep, globals, freq, lasts, built, updateAll,
                   sduParams, wfcLocals>>

sendNbpPackageRead2 ==
    /\ pc = "nbp2"
    /\ CanRead(atTimeout)
    /\ ReadByte(TokSendOk)
    /\ UNCHANGED <<pc, ret, clock, wire, leds, setupStep, globals, freq, lasts, built,
                   updateAll, nbpPackage, sduParams, wfcLocals, failRun>>

\* lines 301-310: the second loop has ended
sendNbpPackageReturn2 ==
    /\ pc = "nbp2"
    /\ LoopEnded(atTimeout)
    /\ IF foundError THEN red' = PinHigh /\ UNCHANGED green ELSE UNCHANGED leds
    /\ NbpReturn(~foundError /\ foundExpected)
    /\ UNCHANGED <<hw, wire, setupStep, globals, freq, lasts, built, updateAll,
                   sduParams, wfcLocals>>

(***************************************************************************)
(* The package builder.                                                    *)
(***************************************************************************)
\* the start of a content line: "<channel>","<unit>":
LineHead(channel, unit) == "\"" \o channel \o "\",\"" \o unit \o "\":"

\* buildNbpContentLine with a float value and a precision of 1
buildNbpContentLineFloat(channel, unit, value) ==
    LineHead(channel, unit) \o FloatStr1(value) \o "\n"

\* buildNbpContentLine with an int value
buildNbpContentLine(channel, unit, value) ==
    LineHead(channel, unit) \o IntStr(value) \o "\n"

\* random(1, 1000), of which currentRandomFloat is a tenth
RandFloatSet == {5, 999}
\* random(1, 100)
RandIntSet == {42}

\* FreqIncluded with the frequency left out of every package it has not changed for
FreqIncludedChanged(all, lastF, curF) == FNe(lastF, curF)

\* line 211: the frequency channel is in the package
FreqIncluded(all, lastF, curF) == all \/ FNe(lastF, curF)
\* line 217: the random float channel is in the package (both in tenths)
RandFloatIncluded(all, lastT, curT) == all \/ lastT # curT
\* line 223: the random int channel is in the package
RandIntIncluded(all, lastI, curI) == all \/ lastI # curI

\* the String that GetUpdateNbpPackage(all) returns
GetUpdateNbpPackage(all, nowMs, curF, lastF, curT, lastT, curI, lastI, count) ==
    "*NBP1,UPDATE" \o (IF all THEN "ALL" ELSE "") \o "," \o SecondsStr(nowMs) \o "\n"
    \o (IF FreqIncluded(all, lastF, curF)
        THEN buildNbpContentLineFloat("NBP Freq.", "Hz", curF) ELSE "")
    \o (IF RandFloatIncluded(all, lastT, curT)
        THEN LineHead("Random Float", "Num") \o TenthsStr(curT) \o "\n" ELSE "")
    \o (IF RandIntIncluded(all, lastI, curI)
        THEN buildNbpContentLine("Random Int", "Num", curI) ELSE "")
    \o buildNbpContentLine("Pkg. Count", "Num", ToInt(count))
    \o "#\n"
    \o (IF all THEN "@NAME:" \o DEVICE_NAME \o "\n" ELSE "")

(***************************************************************************)
(* loop().                                                                 *)
(***************************************************************************)
\* broadcastFrequencyPing with the oldest sample left in the sum
broadcastFrequencyPingNoRemove(t) ==
    LET currentFrequency == FRate((t - lastNow) % ULongMod)
        sum == FAdd(FrequencySum, currentFrequency)
    IN  /\ Frequencies' = [Frequencies EXCEPT ![FrequencyIndex] = currentFrequency]
        /\ FrequencySum' = sum
        /\ FrequencyIndex' = (FrequencyIndex + 1) % FrequencyWindowSize
        /\ CurrentAverageFrequency' = FDivInt(sum, FrequencyWindowSize)
        /\ lastNow' = t

\* broadcastFrequencyPing with now = t
broadcastFrequencyPing(t) ==
    LET currentFrequency == FRate((t - lastNow) % ULongMod)
        sum == FAdd(FSub(FrequencySum, Frequencies[FrequencyIndex]), currentFrequency)
    IN  /\ Frequencies' = [Frequencies EXCEPT ![FrequencyIndex] = currentFrequency]
        /\ FrequencySum' = sum
        /\ FrequencyIndex' = (FrequencyIndex + 1) % FrequencyWindowSize
        /\ CurrentAverageFrequency' = FDivInt(sum, FrequencyWindowSize)
        /\ lastNow' = t

\* line 169: the UpdateAll package is due
UpdateAllDue(t) == ((t - lastUpdateAllMillis) % ULongMod) >= updateAllFrequency

\* lines 163-176 up to the first lines of sendNbpPackage, with now = t,
\* loopCount = n, the average frequency f and w written so far
LoopSend(t, n, f, w) ==
    /\ IF n % blinkFrequency = 0 THEN green' = 30 ELSE UNCHANGED green
    /\ updateAll' = UpdateAllDue(t)
    /\ \E rf \in RandFloatSet, ri \in RandIntSet :
          /\ currentRandomFloat' = rf
          /\ currentRandomInt' = ri
          /\ NbpStart(w, GetUpdateNbpPackage(UpdateAllDue(t), t, f, lastBroadcastFrequency,
                                             rf, lastRandomFloat, ri, lastRandomInt, n))
    /\ currentBroadcastFrequency' = f
    /\ countValue' = ToInt(n)
    /\ lastFullSent' = (IF UpdateAllDue(t) THEN clock ELSE lastFullSent)
    /\ lastBroadcastFrequency' =
          IF FreqIncluded(UpdateAllDue(t), lastBroadcastFrequency, f)
          THEN f ELSE lastBroadcastFrequency
    /\ UNCHANGED <<lastRandomFloat, lastRandomInt>>
    /\ ret' = <<"loopTail">> \o ret
    /\ pc' = "nbp1"

\* line 156: too many errors
LimitReached == consecutiveErrorCount >= consecutiveErrorCountLimit

\* loop() from its first line to its first poll of Serial1, run at most m times
LoopBody(m) ==
    /\ pc = "loop"
    /\ loopCount < m
    /\ now' = clock
    /\ loopCount' = (loopCount + 1) % ULongMod
    /\ broadcastFrequencyPing(clock)
    /\ \/ /\ LimitReached
          /\ WfcStart
          /\ wire' = <<>>
          /\ ret' = <<"loopSend">> \o ret
          /\ pc' = "wfc"
          /\ UNCHANGED <<red, green, lasts, built, updateAll, nbpPackage>>
       \/ /\ ~LimitReached
          /\ LoopSend(clock, (loopCount + 1) % ULongMod,
                      CurrentAverageFrequency', <<>>)
          /\ UNCHANGED <<red, wfcLocals>>
    /\ UNCHANGED <<hw, setupStep, lastUpdateAllMillis, consecutiveErrorCount,
                   sduParams, failRun>>

loop == LoopBody(MaxLoops)

\* loop() goes on after waitForConnection has returned
loopAfterWait ==
    /\ pc = "loopSend"
    /\ LoopSend(now, loopCount, CurrentAverageFrequency, wire)
    /\ UNCHANGED <<hw, red, setupStep, globals, freq, sduParams, wfcLocals, failRun>>

\* lines 171 and 178-182: loop() after sendNbpPackage has returned
loopTail ==
    /\ pc = "loopTail"
    /\ lastUpdateAllMillis' =
          IF updateAll THEN (lastUpdateAllMillis + updateAllFrequency) % ULongMod
          ELSE lastUpdateAllMillis
    /\ IF loopCount % blinkFrequency = 0
       THEN red' = LOW /\ green' = LOW
       ELSE UNCHANGED leds
    /\ updateAll' = FALSE
    /\ pc' = "loop"
    /\ UNCHANGED <<ret, hw, wire, setupStep, now, lastNow, consecutiveErrorCount,
                   loopCount, freq, lasts, built, nbpPackage, sduParams, poll, wfcLocals,
                   failRun>>

(***************************************************************************)
(* The sketch after its globals are constructed, and its steps.            *)
(***************************************************************************)
Init ==
    /\ pc = "setup"
    /\ ret = <<>>
    /\ clock = 0
    /\ rx = <<>>
    /\ wire = <<>>
    /\ red = LOW
    /\ green = LOW
    /\ setupStep = 1
    /\ now = 0
    /\ lastNow = 0
    /\ lastUpdateAllMillis = 0
    /\ consecutiveErrorCount = 0
    /\ loopCount = 0
    /\ FrequencyIndex = 0
    /\ FrequencySum = FZero
    /\ Frequencies = [i \in 0..(FrequencyWindowSize - 1) |-> FZero]
    /\ CurrentAverageFrequency = FZero
    /\ lastBroadcastFrequency = FZero
    /\ lastRandomFloat = 0
    /\ lastRandomInt = 0
    /\ updateAll = FALSE
    /\ nbpPackage = ""
    /\ expected = <<>>
    /\ timeout = 0
    /\ response = <<>>
    /\ time = 0
    /\ keepTrying = FALSE
    /\ foundExpected = FALSE
    /\ foundError = FALSE
    /\ inInner = FALSE
    /\ foundConnect = FALSE
    /\ foundIpd = FALSE
    /\ ledBrightness = 0
    /\ currentBroadcastFrequency = FZero
    /\ currentRandomFloat = 0
    /\ currentRandomInt = 0
    /\ countValue = 0
    /\ failRun = 0
    /\ lastFullSent = 0
    /\ stale = 0

\* the steps of the sketch that every run can take
Sketch ==
    \/ SetupCall
    \/ sendDataUntilRead
    \/ sendDataUntilReturn
    \/ SetupFinish
    \/ waitForConnectionRead
    \/ waitForConnectionPass
    \/ waitForConnectionSend
    \/ waitForConnectionReturn
    \/ sendNbpPackageRead1
    \/ sendNbpPackageError1
    \/ sendNbpPackagePayload
    \/ sendNbpPackageRead2
    \/ sendNbpPackageReturn2
    \/ loopTail

\* The short runs: any chunk at any poll, and time that passes.  loop() runs
\* at most MaxLoops times, too few for the error limit to be reached, so
\* that loopAfterWait is no step of these runs.
Next == Sketch \/ sendNbpPackageTimeout1 \/ loop \/ ModuleSend \/ Tick

Spec == Init /\ [][Next]_vars

(***************************************************************************)
(* The long runs: loop() runs often enough for the error limit to be       *)
(* reached.  The module answers every command at once, with one of the     *)
(* two tokens the polling loop waits for, and no time passes in a polling  *)
(* loop, so that sendNbpPackageTimeout1 is no step of these runs.          *)
(***************************************************************************)
\* the answers of the module to the command the sketch waits on
Answers ==
    CASE pc = "sdu" -> {expected}
      [] pc = "wfc" -> {TokConnect}
      [] pc = "nbp1" -> {TokPrompt, TokError}
      [] pc = "nbp2" -> {TokSendOk, TokError}
      [] OTHER -> {}

ModuleAnswer ==
    /\ pc \in Polling
    /\ keepTrying
    /\ rx = <<>>
    /\ response = <<>>
    /\ \E ch \in Answers : rx' = ch
    /\ UNCHANGED <<pc, ret, clock, wire, leds, setupStep, globals, freq, lasts, built,
                   updateAll, nbpPackage, sduParams, poll, wfcLocals, failRun>>

loopDeep == LoopBody(MaxLoopsDeep)

NextDeep == Sketch \/ loopAfterWait \/ loopDeep \/ ModuleAnswer

SpecDeep == Init /\ [][NextDeep]_vars

(***************************************************************************)
(* The fair runs: the sketch never stops executing and the clock never     *)
(* stops.  The module may answer a command, and it may deliver bytes that  *)
(* match nothing, one after the other, for as long as it likes.            *)
(***************************************************************************)
\* the timed polling loops
Timed == {"sdu", "nbp1", "nbp2"}

\* the timeout of the polling loop the sketch is in
TimeoutAt == IF pc = "sdu" THEN timeout ELSE atTimeout

\* a byte that is part of no token
Junk == "x"

\* the module delivers a byte that matches nothing
ModuleBabble ==
    /\ pc \in Timed
    /\ keepTrying
    /\ rx = <<>>
    /\ rx' = <<Junk>>
    /\ UNCHANGED <<pc, ret, clock, wire, leds, setupStep, globals, freq, lasts, built,
                   updateAll, nbpPackage, sduParams, poll, wfcLocals, failRun>>

\* time passes in an exchange until its deadline is reached
TickLive ==
    /\ pc \in Timed
    /\ keepTrying
    /\ BeforeDeadline(time, TimeoutAt)
    /\ \E d \in TickSet : clock' = (clock + d) % ULongMod
    /\ UNCHANGED <<pc, ret, rx, wire, leds, setupStep, globals, freq, lasts, built,
                   updateAll, nbpPackage, sduParams, poll, wfcLocals, failRun>>

\* the steps of the sketch in the fair runs
SketchLive == Sketch \/ sendNbpPackageTimeout1 \/ loop

NextLive == SketchLive \/ ModuleAnswer \/ ModuleBabble \/ TickLive

SpecLive ==
    Init /\ [][NextLive]_vars /\ WF_vars(SketchLive) /\ WF_vars(TickLive)

(***************************************************************************)
(* The runs of a working link: the module answers every command with the   *)
(* token the sketch waits for.  Time passes while the sketch waits for a   *)
(* client, and while the module takes its time to answer the length        *)
(* command of loop().                                                      *)
(***************************************************************************)
\* the token the polling loop the sketch is in waits for
ExpectedAt ==
    CASE pc = "sdu" -> expected
      [] pc = "wfc" -> TokConnect
      [] pc = "nbp1" -> TokPrompt
      [] pc = "nbp2" -> TokSendOk

\* the module answers at once
ModuleAccept ==
    /\ pc \in Polling
    /\ keepTrying
    /\ rx = <<>>
    /\ response = <<>>
    /\ rx' = ExpectedAt
    /\ UNCHANGED <<pc, ret, clock, wire, leds, setupStep, globals, freq, lasts, built,
                   updateAll, nbpPackage, sduParams, poll, wfcLocals, failRun>>

\* the module answers the length command of loop() after one of the delays D
ModuleAcceptAfter(D) ==
    /\ pc = "nbp1"
    /\ Head(ret) = "loopTail"
    /\ keepTrying
    /\ rx = <<>>
    /\ response = <<>>
    /\ rx' = TokPrompt
    /\ \E d \in D : clock' = (clock + d) % ULongMod
    /\ UNCHANGED <<pc, ret, wire, leds, setupStep, globals, freq, lasts, built,
                   updateAll, nbpPackage, sduParams, poll, wfcLocals, failRun>>

\* milliseconds the module takes to answer in the runs of a working link
RunDelays == {20}

ModuleAcceptSlow == ModuleAcceptAfter(RunDelays)

\* milliseconds without a client: 15 seconds, and 100 ms less than the
\* clock's period
StaySet == {15000, ULongMod - 100}

\* no client connects for a long time, once
LongStay ==
    /\ pc = "wfc"
    /\ keepTrying
    /\ rx = <<>>
    /\ response = <<>>
    /\ clock < MaxClock
    /\ \E d \in StaySet : clock' = (clock + d) % ULongMod
    /\ UNCHANGED <<pc, ret, rx, wire, leds, setupStep, globals, freq, lasts, built,
                   updateAll, nbpPackage, sduParams, poll, wfcLocals, failRun>>

\* the steps of the sketch that a run without ERROR can take
SketchAccepted ==
    \/ SetupCall
    \/ sendDataUntilRead
    \/ sendDataUntilReturn
    \/ SetupFinish
    \/ waitForConnectionRead
    \/ waitForConnectionPass
    \/ waitForConnectionSend
    \/ waitForConnectionReturn
    \/ sendNbpPackageRead1
    \/ sendNbpPackagePayload
    \/ sendNbpPackageRead2
    \/ sendNbpPackageReturn2
    \/ loopTail

loopRun == LoopBody(MaxLoopsRun)

NextRun ==
    SketchAccepted \/ sendNbpPackageTimeout1 \/ loopRun \/ ModuleAccept
        \/ ModuleAcceptSlow \/ LongStay

SpecRun == Init /\ [][NextRun]_vars

(***************************************************************************)
(* The steady runs: the module answers every command with the token the    *)
(* sketch waits for, at once but for the length command of loop(), which   *)
(* it answers after 10, 20 or 50 ms in the first runs of loop() and after  *)
(* 20 ms in all later ones.  loop() runs often enough for the frequency    *)
(* window to wrap.                                                         *)
(***************************************************************************)
\* the module answers at once, but not the length command of loop()
ModuleAcceptBoot ==
    /\ ~(pc = "nbp1" /\ Head(ret) = "loopTail")
    /\ ModuleAccept

\* milliseconds the module takes to answer the length command of loop()
WindowDelays == IF loopCount <= VariedLoops THEN {10, 20, 50} ELSE {20}

ModuleAcceptPaced == ModuleAcceptAfter(WindowDelays)

loopWindow == LoopBody(MaxLoopsWindow)

NextWindow == SketchAccepted \/ loopWindow \/ ModuleAcceptBoot \/ ModuleAcceptPaced

SpecWindow == Init /\ [][NextWindow]_vars

(***************************************************************************)
(* The late runs begin where a steady run has brought the sketch: boot     *)
(* took no time, a client connected in the first 50 ms, and loop() has run *)
(* n times, 20 ms apart, every send a success.  From there loop() runs     *)
(* MaxLoopsLate times more.                                                *)
(***************************************************************************)
\* the runs of loop() before a late run begins: the package counter is about
\* to pass the largest int, and the largest unsigned 16 bit number
StartCounts == {32766, 65534}

\* the package of the n-th run of loop() in a steady run, sent at now = t
SteadyPackage(n, t, rf) ==
    GetUpdateNbpPackage(FALSE, t, FNum(50000), FNum(50000), rf, 0, 42, 0, n)

\* the state between two runs of loop() in a steady run, after n >= 55 runs
\* of which the last drew rf and did not send a full package
SteadyAfter(n, rf) ==
    LET t == 50 + (20 * (n - 1))
        due == updateAllFrequency * (t \div updateAllFrequency)
    IN  /\ pc = "loop"
        /\ ret = <<>>
        /\ clock = t + 20
        /\ rx = <<>>
        /\ wire = DataWrite(AtWrite(<<>>, CipSendCommand(SteadyPackage(n, t, rf))),
                            SteadyPackage(n, t, rf))
        /\ red = LOW
        /\ green = LOW
        /\ setupStep = 4
        /\ now = t
        /\ lastNow = t
        /\ lastUpdateAllMillis = due
        /\ consecutiveErrorCount = 0
        /\ loopCount = n
        /\ FrequencyIndex = n % FrequencyWindowSize
        /\ FrequencySum = FNum(50000 * FrequencyWindowSize)
        /\ Frequencies = [i \in 0..(FrequencyWindowSize - 1) |-> FNum(50000)]
        /\ CurrentAverageFrequency = FNum(50000)
        /\ lastBroadcastFrequency = FNum(50000)
        /\ lastRandomFloat = 0
        /\ lastRandomInt = 0
        /\ updateAll = FALSE
        /\ nbpPackage = ""
        /\ expected = <<>>
        /\ timeout = 0
        /\ response = <<>>
        /\ time = 0
        /\ keepTrying = FALSE
        /\ foundExpected = FALSE
        /\ foundError = FALSE
        /\ inInner = FALSE
        /\ foundConnect = FALSE
        /\ foundIpd = FALSE
        /\ ledBrightness = 0
        /\ currentBroadcastFrequency = FNum(50000)
        /\ currentRandomFloat = rf
        /\ currentRandomInt = 42
        /\ countValue = ToInt(n)
        /\ failRun = 0
        /\ lastFullSent = (IF due = 0 THEN 0 ELSE 50 + (20 * ((due - 50 + 19) \div 20)))
        /\ stale = 0

InitLate == \E n \in StartCounts, rf \in RandFloatSet : SteadyAfter(n, rf)

\* loop() and what it calls, on a link without ERROR
LoopAccepted ==
    \/ sendNbpPackageRead1
    \/ sendNbpPackagePayload
    \/ sendNbpPackageRead2
    \/ sendNbpPackageReturn2
    \/ loopTail

\* loop() runs MaxLoopsLate times more
loopLate ==
    /\ \E n \in StartCounts : loopCount \in n..(n + MaxLoopsLate - 1)
    /\ LoopBody(loopCount + 1)

NextLate == LoopAccepted \/ loopLate \/ ModuleAccept \/ ModuleAcceptSlow

SpecLate == InitLate /\ [][NextLate]_vars

(***************************************************************************)
(* The claims.                                                             *)
(***************************************************************************)
\* the polling loop at location p ends in this step
Resolves(p) == pc = p /\ pc' # p

\* sendNbpPackage is called in this step
NbpCalled == pc # "nbp1" /\ pc' = "nbp1"

\* the last thing written
LastWrite(w) == w[Len(w)]

\* C1: once consecutiveErrorCountLimit broadcast attempts of loop() in a row
\* have ended in ProtocolError or Timeout, the next run of loop() calls
\* waitForConnection before it sends anything; and loop() calls
\* waitForConnection only with the error counter at the limit or above.
C1_ReconnectAtThreshold ==
    [][(pc = "loop" /\ pc' # "loop")
         => /\ (failRun >= consecutiveErrorCountLimit => pc' = "wfc")
            /\ (pc' = "wfc" => consecutiveErrorCount >= consecutiveErrorCountLimit)]_vars

\* C2: a polling loop of sendNbpPackage that ends in Timeout, in either
\* phase, adds one to the error counter.
C2_TimeoutCounts ==
    [][((Resolves("nbp1") \/ Resolves("nbp2")) /\ Outcome = "Timeout")
         => consecutiveErrorCount' = consecutiveErrorCount + 1]_vars

\* C3: a polling loop of sendNbpPackage that ends in ProtocolError, in either
\* phase, adds exactly one to the error counter.
C3_ProtocolErrorCounts ==
    [][((Resolves("nbp1") \/ Resolves("nbp2")) /\ Outcome = "ProtocolError")
         => consecutiveErrorCount' = consecutiveErrorCount + 1]_vars

\* C4: the error counter goes back to zero only when the second phase of a
\* send ends in Success; a send whose first phase succeeds and whose second
\* phase fails leaves the counter as it was before the send.
C4_ResetOnlyOnFullSuccess ==
    [][(consecutiveErrorCount # 0 /\ consecutiveErrorCount' = 0)
         => (Resolves("nbp2") /\ Outcome = "Success")]_vars

\* C5: when waitForConnection has returned to loop(), the error counter is
\* zero and the value last sent for the frequency channel is cleared, before
\* the next update package is built.
C5_StateResetOnReconnect ==
    pc = "loopSend"
      => /\ consecutiveErrorCount = 0
         /\ lastBroadcastFrequency = FZero

\* C6: the package is written only by a call whose length command was
\* answered by ">", right after that command, and the command announces the
\* length of the package written; a first phase that ends in ProtocolError
\* or Timeout writes nothing.
C6_PayloadAfterPrompt ==
    [][/\ (Len(wire') = Len(wire) + 1 /\ LastWrite(wire').kind = "data")
            => /\ pc = "nbp1"
               /\ EndsWith(response, <<">">>)
               /\ Len(wire) >= 1
               /\ LastWrite(wire).kind = "at"
               /\ LastWrite(wire).text
                     = "AT+CIPSEND=0," \o NatStr(Len(LastWrite(wire').text)) \o "\r\n"
               /\ LastWrite(wire').text = nbpPackage
               /\ SubSeq(wire', 1, Len(wire)) = wire
       /\ (Resolves("nbp1") /\ Outcome # "Success")
            => (wire' = wire /\ pc' # "nbp2")
       /\ (Resolves("nbp1") /\ Outcome = "Success")
            => (Len(wire') = Len(wire) + 1 /\ LastWrite(wire').kind = "data")]_vars

\* C6: a package has been written by a broadcast attempt of loop()
C6_Witness ==
    /\ pc = "nbp2"
    /\ loopCount = 1
    /\ LastWrite(wire).kind = "data"

\* what setup() writes, in order
BootWrites ==
    << [kind |-> "at", text |-> "AT+RST\r\n"],
       [kind |-> "at", text |-> "AT+CIPMUX=1\r\n"],
       [kind |-> "at", text |-> "AT+CIPSERVER=1,80\r\n"] >>

\* the sketch is in setup(), before a connection is established
InBoot == loopCount = 0 /\ pc \in {"setup", "sdu", "wfc"}

\* the commands setup() has written so far
BootWritten == IF pc = "setup" THEN setupStep - 1 ELSE IF pc = "sdu" THEN setupStep ELSE 3

\* C7: setup() writes AT+RST, AT+CIPMUX=1 and AT+CIPSERVER=1,80, in this
\* order and once each; the next command follows whatever the outcome of
\* the one before, and after the third the sketch waits for a connection
\* with nothing else written.
C7_BootSequence ==
    [][/\ InBoot' => wire' = SubSeq(BootWrites, 1, BootWritten')
       /\ Resolves("sdu") => (pc' = "setup" /\ setupStep' = setupStep + 1)
       /\ (pc = "setup" /\ setupStep <= 3)
            => (pc' = "sdu" /\ wire' = Append(wire, BootWrites[setupStep]))
       /\ (pc = "setup" /\ setupStep > 3)
            => (pc' = "wfc" /\ wire' = BootWrites /\ wire' = wire)]_vars

\* C7: the three commands are written and one of them was answered by ERROR
C7_Witness ==
    /\ pc = "setup"
    /\ setupStep = 4
    /\ red = 200
    /\ wire = BootWrites

\* C8: while the sketch waits for a connection nothing is written; the wait
\* ends only when what was read since it began ends with ",CONNECT" or with
\* "+IPD", however long that takes; and before the first wait has ended only
\* the commands of setup() have been written.
C8_WaitUntilMarker ==
    [][/\ pc = "wfc" => wire' = wire
       /\ Resolves("wfc")
            => /\ \/ EndsWith(response, <<",", "C", "O", "N", "N", "E", "C", "T">>)
                  \/ EndsWith(response, <<"+", "I", "P", "D">>)
               /\ pc' = "wfcSend"
       /\ InBoot' => \A i \in 1..Len(wire') : \E k \in 1..3 : wire'[i] = BootWrites[k]
       /\ (NbpCalled /\ loopCount' = 0) => pc = "wfcSend"]_vars

\* C8: the wait ended on "+IPD" after other bytes had been read
C8_Witness ==
    /\ pc = "wfcSend"
    /\ foundIpd
    /\ Len(response) > 4

\* C9: a wait for a connection that ends is followed at once by one call of
\* sendNbpPackage with the control package, "@NAME:<device name>" and
\* "@KEEPALIVE:OFF"; the control package is sent by no other call, and the
\* update packages are sent by loop() only.
C9_ControlPackageOnConnect ==
    [][/\ Resolves("wfc") => pc' = "wfcSend"
       /\ pc = "wfcSend"
            => /\ NbpCalled
               /\ nbpPackage' = "@NAME:My NBP Device\n@KEEPALIVE:OFF\n"
               /\ wire' = Append(wire, [kind |-> "at",
                                        text |-> "AT+CIPSEND=0,35\r\n"])
       /\ (NbpCalled /\ pc # "wfcSend")
            => /\ pc \in {"loop", "loopSend"}
               /\ nbpPackage' # "@NAME:My NBP Device\n@KEEPALIVE:OFF\n"]_vars

\* C9: the control package is sent again after the error limit was reached
C9_Witness ==
    /\ pc = "nbp1"
    /\ nbpPackage = "@NAME:My NBP Device\n@KEEPALIVE:OFF\n"
    /\ loopCount > consecutiveErrorCountLimit
    /\ consecutiveErrorCount >= consecutiveErrorCountLimit

\* the token a polling loop waits for
TokenAt(p) ==
    CASE p = "sdu" -> (IF setupStep = 1 THEN <<"r", "e", "a", "d", "y">> ELSE <<"O", "K">>)
      [] p = "nbp1" -> <<">">>
      [] p = "nbp2" -> <<"S", "E", "N", "D", " ", "O", "K">>

\* C10: in a polling loop the command was written once, before the loop;
\* foundExpected and foundError say whether what was read ends with the
\* expected token and with "ERROR"; the loop goes on exactly while neither
\* does; and nothing was read after a byte at which one of them did, so that
\* the outcome is Timeout only if neither token ever ended what was read.
C10_SuffixClassification ==
    pc \in {"sdu", "nbp1", "nbp2"}
      => /\ foundExpected = EndsWith(response, TokenAt(pc))
         /\ foundError = EndsWith(response, <<"E", "R", "R", "O", "R">>)
         /\ keepTrying = (~foundExpected /\ ~foundError)
         /\ \A k \in 1..(Len(response) - 1) :
               /\ ~EndsWith(SubSeq(response, 1, k), TokenAt(pc))
               /\ ~EndsWith(SubSeq(response, 1, k), <<"E", "R", "R", "O", "R">>)
         /\ Len(wire) >= 1
         /\ pc = "sdu" => wire = SubSeq(BootWrites, 1, setupStep)
         /\ pc = "nbp1"
              => LastWrite(wire) = [kind |-> "at",
                    text |-> "AT+CIPSEND=0," \o NatStr(Len(nbpPackage)) \o "\r\n"]
         /\ pc = "nbp2" => LastWrite(wire) = [kind |-> "data", text |-> nbpPackage]

\* C10: "SEND OK" ended the second phase after another byte had been read
C10_Witness ==
    /\ pc = "nbp2"
    /\ foundExpected
    /\ Len(response) > 7

\* C11: every timed exchange ends and control returns to the caller,
\* whatever bytes the module delivers and however long it keeps delivering
\* bytes that match nothing.
C11_ExchangeTerminates ==
    /\ (pc = "sdu") ~> (pc # "sdu")
    /\ (pc = "nbp1") ~> (pc # "nbp1")
    /\ (pc = "nbp2") ~> (pc # "nbp2")

\* loop() builds an update package and hands it to sendNbpPackage in this step
BuildStep == pc \in {"loop", "loopSend"} /\ pc' = "nbp1"

\* the lines of an update package, as the NBP grammar writes them
HeaderLine(kind, ms) == "*NBP1," \o kind \o "," \o SecondsStr(ms) \o "\n"
FreqLine(f) == "\"NBP Freq.\",\"Hz\":" \o FloatStr1(f) \o "\n"
FloatLine(tenths) == "\"Random Float\",\"Num\":" \o TenthsStr(tenths) \o "\n"
IntLine(i) == "\"Random Int\",\"Num\":" \o IntStr(i) \o "\n"
CountLine(n) == "\"Pkg. Count\",\"Num\":" \o IntStr(n) \o "\n"

\* the channel lines of a package that has the lines of the channels flagged
ChannelLines(incF, incR, incI, f, tenths, i) ==
    (IF incF THEN FreqLine(f) ELSE "")
        \o (IF incR THEN FloatLine(tenths) ELSE "")
        \o (IF incI THEN IntLine(i) ELSE "")

\* C12: a delta package has the line of a channel exactly if the sampled
\* value differs from the value stored as last sent; a channel that is
\* included has its sampled value stored as last sent; and a delta package
\* whose samples all equal those of the package before has the counter line
\* and the terminator only.
C12_DeltaInclusion ==
    [][(BuildStep /\ ~updateAll')
         => LET incF == FNe(lastBroadcastFrequency, currentBroadcastFrequency')
                incR == lastRandomFloat # currentRandomFloat'
                incI == lastRandomInt # currentRandomInt'
            IN  /\ nbpPackage' =
                      HeaderLine("UPDATE", now')
                          \o ChannelLines(incF, incR, incI, currentBroadcastFrequency',
                                          currentRandomFloat', currentRandomInt')
                          \o CountLine(countValue') \o "#\n"
                /\ incF => lastBroadcastFrequency' = currentBroadcastFrequency'
                /\ incR => lastRandomFloat' = currentRandomFloat'
                /\ incI => lastRandomInt' = currentRandomInt'
                /\ (/\ loopCount >= 1
                    /\ ~FNe(currentBroadcastFrequency, currentBroadcastFrequency')
                    /\ currentRandomFloat = currentRandomFloat'
                    /\ currentRandomInt = currentRandomInt')
                     => nbpPackage' = HeaderLine("UPDATE", now')
                                         \o CountLine(countValue') \o "#\n"]_vars

\* C13: a full package is the UPDATEALL header, the lines of NBP Freq.,
\* Random Float, Random Int and Pkg. Count in this order, whatever their
\* values were before, the terminator and the identity line; a delta package
\* is the UPDATE header, lines of some of the three channels, the counter
\* line and the terminator, with which it ends.
C13_FullSnapshot ==
    [][BuildStep
         => IF updateAll'
            THEN nbpPackage' =
                     HeaderLine("UPDATEALL", now')
                         \o FreqLine(currentBroadcastFrequency')
                         \o FloatLine(currentRandomFloat')
                         \o IntLine(currentRandomInt')
                         \o CountLine(countValue')
                         \o "#\n"
                         \o "@NAME:My NBP Device\n"
            ELSE \E incF, incR, incI \in BOOLEAN :
                     nbpPackage' =
                         HeaderLine("UPDATE", now')
                             \o ChannelLines(incF, incR, incI, currentBroadcastFrequency',
                                             currentRandomFloat', currentRandomInt')
                             \o CountLine(countValue')
                             \o "#\n"]_vars

\* C13: a full package was built with the frequency channel at the value
\* that the full package before it had sent
C13_Witness ==
    /\ pc = "nbp1"
    /\ updateAll
    /\ loopCount = 3
    /\ currentBroadcastFrequency = FInf(1)
    /\ nbpPackage = "*NBP1,UPDATEALL,15.050\n\"NBP Freq.\",\"Hz\":INF\n"
                        \o "\"Random Float\",\"Num\":99.9\n\"Random Int\",\"Num\":42\n"
                        \o "\"Pkg. Count\",\"Num\":3\n#\n@NAME:My NBP Device\n"

\* C14: the package loop() builds is a full one exactly if updateAllFrequency
\* milliseconds or more have passed since the last full package was sent (or
\* since the start, before the first), so that two full packages are never
\* less than updateAllFrequency milliseconds apart.
C14_FullUpdateInterval ==
    [][BuildStep
         => (updateAll' <=> ((clock - lastFullSent) % ULongMod) >= updateAllFrequency)]_vars

RECURSIVE WindowTotal(_)
\* the sum of the first k entries of the frequency window, in thousandths
WindowTotal(k) == IF k = 0 THEN 0 ELSE WindowTotal(k - 1) + Frequencies[k - 1][2]

\* every sample in the frequency window is a whole number of Hz
WholeSamples ==
    \A i \in 0..(FrequencyWindowSize - 1) :
        Frequencies[i][1] = "num" /\ Frequencies[i][2] % 1000 = 0

\* C15: with whole-numbered samples, after any number of calls of
\* broadcastFrequencyPing (one per run of loop()) FrequencySum is the sum of
\* the 50 entries of Frequencies, FrequencyIndex is the number of calls
\* modulo 50, and the average is FrequencySum / 50.
C15_WindowSum ==
    WholeSamples
      => /\ FrequencySum = <<"num", WindowTotal(50)>>
         /\ FrequencyIndex \in 0..49
         /\ FrequencyIndex = loopCount % 50
         /\ FrequencySum[1] = "num"
         /\ CurrentAverageFrequency = <<"num", FrequencySum[2] \div 50>>

\* C15: the window has wrapped: the samples of the first calls, 10 or 20 Hz
\* among them, are overwritten, all 50 entries are 50 Hz and so is the average
C15_Witness ==
    /\ loopCount = 54
    /\ FrequencyIndex = 4
    /\ WholeSamples
    /\ \A i \in 0..49 : Frequencies[i] = <<"num", 50000>>
    /\ FrequencySum = <<"num", 2500000>>
    /\ CurrentAverageFrequency = <<"num", 50000>>

\* C16: every update package has the counter line once, after the channel
\* lines and before the terminator, and the number in it is greater than
\* the number in the update package built before.
C16_CounterMonotonic ==
    [][BuildStep
         => /\ \E incF, incR, incI \in BOOLEAN :
                  nbpPackage' =
                      HeaderLine(IF updateAll' THEN "UPDATEALL" ELSE "UPDATE", now')
                          \o ChannelLines(incF, incR, incI, currentBroadcastFrequency',
                                          currentRandomFloat', currentRandomInt')
                          \o CountLine(countValue')
                          \o "#\n"
                          \o (IF updateAll' THEN "@NAME:My NBP Device\n" ELSE "")
            /\ countValue' > countValue]_vars

\* a broadcast attempt of loop() ends with both phases a success in this step
SendSucceeds == Resolves("nbp2") /\ Outcome = "Success" /\ Head(ret) = "loopTail"

\* a broadcast attempt of loop() ends with ERROR in this step
SendFails ==
    /\ Resolves("nbp1") \/ Resolves("nbp2")
    /\ Outcome = "ProtocolError"
    /\ Head(ret) = "loopTail"

\* C17: an ERROR that ends a broadcast attempt of loop() turns the red light
\* on; the red light goes off only when a broadcast attempt succeeds or
\* when the sketch starts to wait, or is waiting, for a connection; and it
\* is off once a broadcast attempt has succeeded.
C17_RedUntilSuccess ==
    [][/\ SendFails => red' # LOW
       /\ (red # LOW /\ red' = LOW)
            => (SendSucceeds \/ pc' = "wfc" \/ pc \in {"wfc", "wfcSend", "wfcTail"})
       /\ SendSucceeds => red' = LOW]_vars

\* a byte is read by a timed polling loop in this step
ReadStep == pc \in {"sdu", "nbp1", "nbp2"} /\ pc' = pc /\ rx # <<>> /\ rx' = Tail(rx)

\* C18: a byte that was in the receive buffer before the command of an
\* exchange was written never completes the expected token or ERROR of that
\* exchange, so that it neither ends the exchange nor, through its outcome,
\* changes the error counter.
C18_OwnBytesOnly ==
    [][(ReadStep /\ stale > 0) => (keepTrying' /\ ~foundExpected' /\ ~foundError')]_vars

\* C19: a timed exchange ends in Timeout only when the milliseconds of its
\* timeout have passed since its command was written, at whatever reading
\* of the clock it began.
C19_FullTimeoutWindow ==
    [][((Resolves("sdu") \/ Resolves("nbp1") \/ Resolves("nbp2")) /\ Outcome = "Timeout")
         => ((clock - time) % ULongMod) >= TimeoutAt]_vars

\* C20: at every call of broadcastFrequencyPing (one per run of loop()) the
\* interval now - lastNow is greater than 0, and every entry of the frequency
\* window and the running sum are finite numbers afterwards.
C20_PositiveInterval ==
    [][loopCount' # loopCount
         => /\ ((now' - lastNow) % ULongMod) > 0
            /\ \A i \in 0..(FrequencyWindowSize - 1) : Frequencies'[i][1] = "num"
            /\ FrequencySum'[1] = "num"]_vars

====
